---- MODULE Spec2Model ----
(***************************************************************************)
(* Claim-orchestration pipeline of autopumptoken: the scheduler with its   *)
(* claimInProgress lock, the manual and forced triggers, executeClaimFlow   *)
(* with its claim / treasury / buyback / burn stages and the rows they      *)
(* persist.                                                                 *)
(*                                                                          *)
(* Every async function is cut at its awaits: one action is the code that   *)
(* runs between two suspension points of one task.  SOL and token amounts   *)
(* are the JavaScript Numbers of the code: IEEE-754 binary64 values, every  *)
(* operation rounded to 53 significant bits as the language rounds it.      *)
(* Lamport and base-unit counts are integers.                               *)
(*                                                                          *)
(* Two specifications share the actions.  Spec explores overlapping         *)
(* triggers (MaxConcurrent in flight) under the default 50/50 split with    *)
(* one settling and one empty claim; SpecSeq explores one trigger at a time *)
(* under every split configuration and every balance case, and records    *)
(* what each step submits (tx) and what shouldClaimFees answers (decision). *)
(* The variable scope holds the choice and never changes.                   *)
(***************************************************************************)
EXTENDS Integers, Sequences, FiniteSets, TLC

\* ---------------------------------------------------------------- bounds
MaxRuns == 2
MaxConcurrent == 2
MaxSendRetries == 6
MaxLatencyMs == 1000
MaxTicks == 12

\* ------------------------------------------------------ program constants
\* MIN_WALLET_BALANCE_SOL = 0.01, in lamports
MIN_WALLET_BALANCE_LAMPORTS == 10000000
\* CLAIM_THRESHOLD_SOL, in lamports, for a deployment configured with 0.0001
claimThresholdLamports == 100000
\* "Keep only last 10 errors"
MaxErrors == 10

\* ------------------------------------------- unbounded natural numbers
\* A natural number of any size is its sequence of limbs in base 2^15, least
\* significant first, without leading zero limbs: the amounts of this
\* program pass 2^31 in their intermediate products, and the significand of
\* a Number has 53 bits.
Base == 32768
LimbBits == 15

RECURSIVE NatOf(_)
NatOf(n) == IF n = 0 THEN <<>> ELSE <<n % Base>> \o NatOf(n \div Base)

\* for values below 2^31
RECURSIVE IntOf(_)
IntOf(a) == IF a = <<>> THEN 0 ELSE Head(a) + Base * IntOf(Tail(a))

RECURSIVE Trim(_)
Trim(a) == IF a # <<>> /\ a[Len(a)] = 0
           THEN Trim(SubSeq(a, 1, Len(a) - 1)) ELSE a

Limb0(a) == IF a = <<>> THEN 0 ELSE Head(a)
Rest(a) == IF a = <<>> THEN <<>> ELSE Tail(a)
IsOdd(a) == Limb0(a) % 2 = 1

RECURSIVE NatAddC(_, _, _)
NatAddC(a, b, carry) ==
  IF a = <<>> /\ b = <<>> THEN NatOf(carry)
  ELSE LET s == Limb0(a) + Limb0(b) + carry
       IN <<s % Base>> \o NatAddC(Rest(a), Rest(b), s \div Base)
NatAdd(a, b) == NatAddC(a, b, 0)

\* a - b - borrow, for a >= b + borrow
RECURSIVE NatSubB(_, _, _)
NatSubB(a, b, borrow) ==
  IF a = <<>> THEN <<>>
  ELSE LET s == Limb0(a) - Limb0(b) - borrow
       IN IF s < 0 THEN <<s + Base>> \o NatSubB(Rest(a), Rest(b), 1)
                   ELSE <<s>> \o NatSubB(Rest(a), Rest(b), 0)
NatSub(a, b) == Trim(NatSubB(a, b, 0))

\* a * k + carry, for 0 < k <= Base
RECURSIVE NatMulC(_, _, _)
NatMulC(a, k, carry) ==
  IF a = <<>> THEN NatOf(carry)
  ELSE LET cur == Head(a) * k + carry
       IN <<cur % Base>> \o NatMulC(Tail(a), k, cur \div Base)
NatMul(a, k) == NatMulC(a, k, 0)

\* quotient and remainder of a by d, for 0 < d <= Base
RECURSIVE NatDivR(_, _)
NatDivR(a, d) ==
  IF a = <<>> THEN [q |-> <<>>, r |-> 0]
  ELSE LET hi == NatDivR(Tail(a), d)
           cur == Base * hi.r + Head(a)
       IN [q |-> <<cur \div d>> \o hi.q, r |-> cur % d]
NatDiv(a, d) == LET qr == NatDivR(a, d) IN [q |-> Trim(qr.q), r |-> qr.r]

\* -1, 0, 1 as a < b, a = b, a > b
RECURSIVE NatCmp(_, _)
NatCmp(a, b) ==
  IF a = <<>> /\ b = <<>> THEN 0
  ELSE LET hi == NatCmp(Rest(a), Rest(b))
       IN IF hi # 0 THEN hi
          ELSE IF Limb0(a) < Limb0(b) THEN -1
          ELSE IF Limb0(a) > Limb0(b) THEN 1 ELSE 0

\* a * 10^p and a / 10^p (quotient, and whether a remainder was dropped)
RECURSIVE NatMulPow10(_, _)
NatMulPow10(a, p) ==
  IF p = 0 THEN a
  ELSE IF p >= 4 THEN NatMulPow10(NatMul(a, 10000), p - 4)
  ELSE NatMul(a, 10^p)

RECURSIVE NatDivPow10(_, _)
NatDivPow10(a, p) ==
  IF p = 0 THEN [q |-> a, sticky |-> FALSE]
  ELSE LET step == IF p >= 4 THEN 4 ELSE p
           qr == NatDiv(a, 10^step)
           more == NatDivPow10(qr.q, p - step)
       IN [q |-> more.q, sticky |-> more.sticky \/ qr.r # 0]

\* number of bits of a
BitLen(a) ==
  IF a = <<>> THEN 0
  ELSE (Len(a) - 1) * LimbBits
       + CHOOSE k \in 1..LimbBits : 2^(k-1) <= a[Len(a)] /\ a[Len(a)] < 2^k

\* a * 2^s
ShiftLeft(a, s) ==
  IF a = <<>> \/ s = 0 THEN a
  ELSE LET part == NatMul(a, 2^(s % LimbBits))
       IN IF s < LimbBits THEN part
          ELSE [i \in 1..(s \div LimbBits) |-> 0] \o part

\* a / 2^s (quotient, and whether a set bit was dropped)
ShiftRight(a, s) ==
  LET whole == s \div LimbBits
      high == IF whole >= Len(a) THEN <<>> ELSE SubSeq(a, whole + 1, Len(a))
      qr == NatDiv(high, 2^(s % LimbBits))
  IN [q |-> qr.q,
      sticky |-> qr.r # 0 \/ \E i \in 1..whole : i <= Len(a) /\ a[i] # 0]

\* ------------------------------------------------- JavaScript Numbers
\* A Number is an IEEE-754 binary64 value (-1)^neg * m * 2^e, held with m
\* odd (or empty for zero) so that equal values are equal records.  Every
\* operation computes the exact result and rounds it once to 53 significant
\* bits, ties to even.  The exponent range is not modelled: no amount of
\* this program comes near its ends.
Zero == [neg |-> FALSE, m |-> <<>>, e |-> 0]

RECURSIVE Norm(_, _, _)
Norm(neg, m, e) ==
  IF m = <<>> THEN Zero
  ELSE IF Head(m) = 0 THEN Norm(neg, Tail(m), e + LimbBits)
  ELSE LET t == CHOOSE k \in 0..(LimbBits - 1) :
                  Head(m) % 2^k = 0 /\ Head(m) % 2^(k+1) # 0
       IN [neg |-> neg, m |-> ShiftRight(m, t).q, e |-> e + t]

\* the Number nearest to (n + s) * 2^e, with 0 < s < 1 if sticky, else s = 0
RoundToNumber(neg, n, sticky, e) ==
  LET drop == BitLen(n) - 53
  IN IF drop <= 0 THEN Norm(neg, n, e)
     ELSE LET low == ShiftRight(n, drop - 1)
              kept == ShiftRight(low.q, 1).q
              up == IsOdd(low.q) /\ (sticky \/ low.sticky \/ IsOdd(kept))
          IN Norm(neg, IF up THEN NatAdd(kept, <<1>>) ELSE kept, e + drop)

\* Number(n), n an integer below 2^31 in magnitude
NumberOf(n) == IF n < 0 THEN Norm(TRUE, NatOf(-n), 0)
               ELSE Norm(FALSE, NatOf(n), 0)

\* x * k, k an integer in 0..Base
NumMulInt(x, k) == IF k = 0 THEN Zero
                   ELSE RoundToNumber(x.neg, NatMul(x.m, k), FALSE, x.e)

\* x * 10^p
NumMulPow10(x, p) == RoundToNumber(x.neg, NatMulPow10(x.m, p), FALSE, x.e)

\* x / 10^p
NumDivPow10(x, p) ==
  LET qs == NatDivPow10(ShiftLeft(x.m, 6 * LimbBits), p)
  IN RoundToNumber(x.neg, qs.q, qs.sticky, x.e - 6 * LimbBits)

\* -1, 0, 1 as x < y, x = y, x > y
NumCmp(x, y) ==
  LET e0 == IF x.e < y.e THEN x.e ELSE y.e
      mag == NatCmp(ShiftLeft(x.m, x.e - e0), ShiftLeft(y.m, y.e - e0))
  IN IF x.m = <<>> /\ y.m = <<>> THEN 0
     ELSE IF y.m = <<>> THEN (IF x.neg THEN -1 ELSE 1)
     ELSE IF x.m = <<>> THEN (IF y.neg THEN 1 ELSE -1)
     ELSE IF x.neg # y.neg THEN (IF x.neg THEN -1 ELSE 1)
     ELSE IF x.neg THEN -mag ELSE mag

NumLess(x, y) == NumCmp(x, y) < 0
NumLeq(x, y) == NumCmp(x, y) <= 0

NumNeg(x) == IF x.m = <<>> THEN x ELSE [x EXCEPT !.neg = ~x.neg]

\* x + y
\* the sum of the aligned significands a (of x) and b (of y), with its sign
SignedSum(xneg, yneg, a, b, order) ==
  IF xneg = yneg THEN [neg |-> xneg, n |-> NatAdd(a, b)]
  ELSE IF order >= 0 THEN [neg |-> xneg, n |-> NatSub(a, b)]
  ELSE [neg |-> yneg, n |-> NatSub(b, a)]

AlignedSum(x, y, a, b, e0) ==
  RoundToNumber(SignedSum(x.neg, y.neg, a, b, NatCmp(a, b)).neg,
                SignedSum(x.neg, y.neg, a, b, NatCmp(a, b)).n, FALSE, e0)

NumAddAt(x, y, e0) ==
  AlignedSum(x, y, ShiftLeft(x.m, x.e - e0), ShiftLeft(y.m, y.e - e0), e0)

NumAdd(x, y) ==
  IF x.m = <<>> THEN y
  ELSE IF y.m = <<>> THEN x
  ELSE NumAddAt(x, y, IF x.e < y.e THEN x.e ELSE y.e)

\* x - y
NumSub(x, y) == NumAdd(x, NumNeg(y))

\* Math.floor(x) of x >= 0, of any size
FloorNat(x) == IF x.e >= 0 THEN [q |-> ShiftLeft(x.m, x.e), sticky |-> FALSE]
               ELSE ShiftRight(x.m, -x.e)

\* Math.floor(x), for a result below 2^31 in magnitude
MathFloor(x) ==
  IF ~x.neg THEN IntOf(FloorNat(x).q)
  ELSE IF FloorNat(x).sticky THEN -(IntOf(FloorNat(x).q) + 1)
  ELSE -IntOf(FloorNat(x).q)

\* parseFloat of the decimal literal digits / 10^scale
ParseFloat(digits, scale) == NumDivPow10(NumberOf(digits), scale)

\* --------------------------------------------------------- input domains
Slots == 1..MaxConcurrent
Configs ==
  { [treasuryPercent |-> 50, buybackPercent |-> 50, webhookUrl |-> TRUE,
     autoClaimEnabled |-> TRUE, enableManualClaim |-> TRUE],
    [treasuryPercent |-> 33, buybackPercent |-> 67, webhookUrl |-> TRUE,
     autoClaimEnabled |-> TRUE, enableManualClaim |-> TRUE],
    [treasuryPercent |-> 0, buybackPercent |-> 100, webhookUrl |-> TRUE,
     autoClaimEnabled |-> TRUE, enableManualClaim |-> TRUE],
    [treasuryPercent |-> 50, buybackPercent |-> 50, webhookUrl |-> TRUE,
     autoClaimEnabled |-> FALSE, enableManualClaim |-> FALSE],
    [treasuryPercent |-> 50, buybackPercent |-> 50, webhookUrl |-> FALSE,
     autoClaimEnabled |-> TRUE, enableManualClaim |-> TRUE] }
Estimates == {99999, 100000}
\* wallet balance before and after the claim transaction, in lamports
BalanceCases ==
  { [before |-> 1000000000, after |-> 1018500000],
    [before |-> 275954394,  after |-> 363478502],
    [before |-> 6502993,    after |-> 54427412],
    [before |-> 5000000,    after |-> 5000100],
    [before |-> 12000000,   after |-> 12000000],
    [before |-> 12000000,   after |-> 11995000] }
\* tokensPurchased as buyToken returns it: the decimal string
\* digits / 10^scale, "0" where no token balance change was found
TokenAmounts ==
  { [digits |-> 1940005, scale |-> 1, form |-> "number"],
    [digits |-> 82,      scale |-> 1, form |-> "number"],
    [digits |-> 1,       scale |-> 7, form |-> "number"],
    [digits |-> 0,       scale |-> 0, form |-> "number"] }
TokenAmountsLean == { a \in TokenAmounts : a.digits = 1940005 }
NoTokens == [digits |-> 0, scale |-> 0, form |-> "number"]
\* any tokenAmount string: also "-5" (form minus), "abc" (form text: no
\* numeric prefix) and "12abc" (form prefix: a number, then other characters)
TokenStrings ==
  TokenAmounts \cup
  { [digits |-> 5,  scale |-> 0, form |-> "minus"],
    [digits |-> 0,  scale |-> 0, form |-> "text"],
    [digits |-> 12, scale |-> 0, form |-> "prefix"] }
\* mintInfo.decimals
MintDecimals == {6, 9}
\* the wallet balance around the buy, in lamports
SpentCases ==
  { [before |-> 50000000, after |-> 40745000],
    [before |-> 50000000, after |-> 48999999] }
SpentCasesLean == { c \in SpentCases : c.after = 40745000 }
\* the cases explored under overlapping triggers
BalanceCasesLean ==
  { b \in BalanceCases : b.before = 1000000000 \/ b.after = b.before }

\* -------------------------------------------------- claimCreatorFees
\* balance / 1e9 : a lamport count as a Number of SOL
lamportsToSol(lamports) == NumDivPow10(NumberOf(lamports), 9)

\* Math.floor(sol * LAMPORTS_PER_SOL)
solToLamports(sol) == MathFloor(NumMulPow10(sol, 9))

\* const MIN_WALLET_BALANCE_SOL = 0.01
MIN_WALLET_BALANCE_SOL == ParseFloat(1, 2)

ConfigAccepted(tp, bp) == tp + bp = 100 /\ tp >= 0 /\ tp <= 100

ClaimedAmountFromEstimate(solBefore, solAfter, estimatedAmount) ==
  IF NumLess(Zero, estimatedAmount) THEN estimatedAmount
  ELSE NumSub(solAfter, solBefore)
\* claimedAmount = solAfter - solBefore; estimatedAmount is in scope, unused
ClaimedAmount(solBefore, solAfter, estimatedAmount) ==
  NumSub(solAfter, solBefore)

\* (amount * percent) / 100
Share(amount, percent) == NumDivPow10(NumMulInt(amount, percent), 2)

\* Math.max(0, solAfter - MIN_WALLET_BALANCE_SOL)
Max0(x) == IF x.neg THEN Zero ELSE x
AvailableToSend(solAfter) == Max0(NumSub(solAfter, MIN_WALLET_BALANCE_SOL))

\* treasuryAmount and buybackAmount recomputed from availableToSend
SplitAdjusted(availableToSend, tp, bp) ==
  [treasury |-> Share(availableToSend, tp),
   buyback  |-> Share(availableToSend, bp),
   adjusted |-> TRUE]

\* willRemain = solAfter - totalToSend; if (willRemain < MIN_WALLET_BALANCE_SOL)
SplitChecked(treasuryAmount, buybackAmount, solAfter, tp, bp) ==
  IF NumLess(NumSub(solAfter, NumAdd(treasuryAmount, buybackAmount)),
             MIN_WALLET_BALANCE_SOL)
  THEN SplitAdjusted(AvailableToSend(solAfter), tp, bp)
  ELSE [treasury |-> treasuryAmount, buyback |-> buybackAmount,
        adjusted |-> FALSE]

SplitAmountsUnchecked(claimedAmount, solAfter, tp, bp) ==
  [treasury |-> Share(claimedAmount, tp),
   buyback  |-> Share(claimedAmount, bp),
   adjusted |-> FALSE]
\* the split of claimCreatorFees, with the reserve adjustment
SplitAmounts(claimedAmount, solAfter, tp, bp) ==
  SplitChecked(Share(claimedAmount, tp), Share(claimedAmount, bp),
               solAfter, tp, bp)

\* the ClaimResult and the lamports handed to insertClaim; valid is false
\* where claimCreatorFees throws (no SOL received, or a share <= 0)
ClaimOutcome(solBefore, solAfter, claimedAmount, split, received, valid) ==
  [solBefore |-> solBefore, solAfter |-> solAfter,
   claimedAmount |-> claimedAmount,
   treasuryAmount |-> split.treasury,
   buybackAmount |-> split.buyback,
   adjusted |-> split.adjusted,
   received |-> received,
   valid |-> valid,
   claimed_amount |-> IF valid THEN solToLamports(claimedAmount) ELSE 0,
   treasury_amount |-> IF valid THEN solToLamports(split.treasury) ELSE 0,
   buyback_amount |-> IF valid THEN solToLamports(split.buyback) ELSE 0]

\* if (claimedAmount <= 0) throw ; if (treasuryAmount <= 0 ||
\* buybackAmount <= 0) throw
ClaimChecks(solBefore, solAfter, claimedAmount, split, received) ==
  ClaimOutcome(solBefore, solAfter, claimedAmount, split, received,
               /\ received
               /\ NumLess(Zero, split.treasury)
               /\ NumLess(Zero, split.buyback))

ClaimSplit(solBefore, solAfter, claimedAmount, tp, bp) ==
  ClaimChecks(solBefore, solAfter, claimedAmount,
              SplitAmounts(claimedAmount, solAfter, tp, bp),
              NumLess(Zero, claimedAmount))

ClaimDelta(solBefore, solAfter, tp, bp, estimatedAmount) ==
  ClaimSplit(solBefore, solAfter,
             ClaimedAmount(solBefore, solAfter, estimatedAmount), tp, bp)

\* claimCreatorFees(estimatedAmount) from the two balances it reads to the
\* amounts it returns and the lamports it hands to insertClaim
ClaimAmounts(balanceBefore, balanceAfter, tp, bp, estimate) ==
  ClaimDelta(lamportsToSol(balanceBefore), lamportsToSol(balanceAfter),
             tp, bp, lamportsToSol(estimate))

\* ClaimAmounts over the input domains, computed once
ClaimAmountsMemo ==
  [b \in BalanceCases |->
    [c \in { <<cfg.treasuryPercent, cfg.buybackPercent>> : cfg \in Configs } |->
      [e \in Estimates \cup {0} |->
        ClaimAmounts(b.before, b.after, c[1], c[2], e)]]]

\* ------------------------------------------------------ buybackTokens
\* actualSolSpent = (balanceBefore - balanceAfter) / 1e9
ActualSolSpent(balanceBefore, balanceAfter, amountSol) ==
  lamportsToSol(balanceBefore - balanceAfter)

\* actualSolSpent and solToLamports(actualSolSpent) over the balance cases
SolSpentMemo ==
  [c \in SpentCases |->
    [sol |-> ActualSolSpent(c.before, c.after, Zero),
     lamports |-> solToLamports(ActualSolSpent(c.before, c.after, Zero))]]

\* ----------------------------------------------- burnPurchasedTokens
\* displayAmount = parseFloat(tokenAmount); accepted unless NaN or <= 0;
\* rawAmount = Math.floor(displayAmount * Math.pow(10, decimals))
\* parseFloat reads the longest numeric prefix and gives NaN without one
BurnAmountUnchecked(tokenAmount, decimals) ==
  [accepted |-> TRUE,
   raw |-> FloorNat(NumMulPow10(ParseFloat(tokenAmount.digits,
                                           tokenAmount.scale), decimals)).q]

BurnAmount(tokenAmount, decimals) ==
  LET isNaN == tokenAmount.form = "text"
      displayAmount ==
        IF tokenAmount.form = "minus"
        THEN NumNeg(ParseFloat(tokenAmount.digits, tokenAmount.scale))
        ELSE ParseFloat(tokenAmount.digits, tokenAmount.scale)
      accepted == ~isNaN /\ NumLess(Zero, displayAmount)
  IN [accepted |-> accepted,
      raw |-> IF accepted
              THEN FloorNat(NumMulPow10(displayAmount, decimals)).q
              ELSE <<>>]

\* BurnAmount over the input domains, computed once
BurnAmountMemo ==
  [a \in TokenStrings |-> [d \in MintDecimals |-> BurnAmount(a, d)]]

\* let needsAta = false; ... if (!accountInfo) needsAta = true;
\* catch (error) { needsAta = true }
NeedsAta(readOk, accountExists) == ~readOk \/ ~accountExists

\* ------------------------------------------------------------- helpers
UpdateStatusAllRows(rows, id, status) ==
  [i \in DOMAIN rows |-> [rows[i] EXCEPT !.status = status]]
\* UPDATE <table> SET status = $1 WHERE id = $n
UpdateStatus(rows, id, status) ==
  [i \in DOMAIN rows |-> IF rows[i].id = id
                         THEN [rows[i] EXCEPT !.status = status]
                         ELSE rows[i]]

\* SELECT * FROM <table> WHERE id = $1 ; record?.id || 1
LookupIdOrOne(rows, id) ==
  IF \E i \in DOMAIN rows : rows[i].id = id /\ rows[i].id # 0
  THEN id ELSE 1

FinallyLockKeep(lock) == lock
\* finally { if (claimInProgress) claimInProgress = false }
FinallyLock(lock) == IF lock THEN FALSE ELSE lock

\* errorInfo = { timestamp: Date.now(), message }; the clock is the number
\* of checks begun so far
ErrorInfo(now, msg) == [timestamp |-> now, message |-> msg]

\* a list that is full takes no further error
PushErrorKeepOldest(errs, e) ==
  IF Len(errs) >= MaxErrors THEN errs ELSE Append(errs, e)

\* errors.push(e); if (errors.length > 10) errors.shift()
PushError(errs, e) ==
  LET pushed == Append(errs, e)
  IN IF Len(pushed) > MaxErrors THEN Tail(pushed) ELSE pushed

\* --------------------------------------------------------- lib/solana.ts
\* Math.min(1000 * Math.pow(2, attempt - 1), 10000)
BackoffBaseMs == 1000
BackoffCapMs == 10000
PollIntervalMs == 2000

BackoffUncapped(attempt) == BackoffBaseMs * 2^(attempt - 1)
\* the delay before the attempt after `attempt`
Backoff(attempt) ==
  IF BackoffBaseMs * 2^(attempt - 1) < BackoffCapMs
  THEN BackoffBaseMs * 2^(attempt - 1) ELSE BackoffCapMs

\* getTransactionStatus: a throw of getSignatureStatus is answered 'pending'
GetTransactionStatus(rpcOk, value) ==
  IF ~rpcOk THEN "pending"
  ELSE IF value = "null" THEN "pending"
  ELSE IF value = "err" THEN "failed"
  ELSE "confirmed"

WithinTimeoutAlways(elapsed, timeoutMs) == TRUE
\* while (Date.now() - startTime < timeoutMs)
WithinTimeout(elapsed, timeoutMs) == elapsed < timeoutMs

\* options.maxRetries / env maxRetries, timeoutMs, and how long an RPC call
\* or a timer takes beyond its nominal time
RetryLimits == 0..MaxSendRetries
ConfirmTimeouts == {0, 3000, 6000}
Latencies == {0, MaxLatencyMs}

IdleSend == [pc |-> "idle", retries |-> 0, attempt |-> 0, attempts |-> 0,
             waits |-> <<>>, signature |-> 0]

IdleConfirm == [pc |-> "idle", timeoutMs |-> 0, elapsed |-> 0, polls |-> 0,
                status |-> "none"]

\* ---------------------------------------------------------------- state
VARIABLES
  config,           \* env: treasuryPercent, buybackPercent, autoClaimEnabled
  claimInProgress,  \* scheduler.ts: the claim lock
  schedulerStatus,  \* scheduler.ts: checksPerformed, claimsTriggered, errors
  systemStatus,     \* system_status row
  claims,           \* claims table
  buybacks,         \* buybacks table
  burns,            \* burns table
  monitorChecks,    \* monitor_checks table
  task,             \* one record per trigger in flight: position and locals
  started,          \* number of triggers issued so far
  mint,             \* the token mint on chain: decimals, incinerator account
  scope,            \* exploration scope: triggers in flight, balance cases
  reply,            \* the HTTP reply sent by the last step, if any
  tx,               \* the transaction submitted by the last step, if any
  decision,         \* the answer of shouldClaimFees in the last step, if any
  result,           \* what executeClaimFlow returned in the last step, if it did
  rpc,              \* lib/solana.ts: a sendTransaction and a confirmTransaction call
  stage             \* what buybackTokens returned in the last step, if it did

vars == <<config, claimInProgress, schedulerStatus, systemStatus, claims,
          buybacks, burns, monitorChecks, task, started, mint, scope,
          reply, tx, decision, result, rpc, stage>>

NoClaim == [success |-> FALSE, claimedAmount |-> Zero,
            treasuryAmount |-> Zero, buybackAmount |-> Zero,
            balanceBefore |-> 0, balanceAfter |-> 0,
            solBefore |-> Zero, solAfter |-> Zero]

IdleTask == [kind |-> "none", pc |-> "idle", run |-> 0, force |-> FALSE,
             est |-> 0, rowId |-> 0, claim |-> NoClaim, claimId |-> 0,
             errCount |-> 0, error |-> "", locked |-> FALSE,
             tokens |-> NoTokens, begun |-> <<>>, done |-> 0]

NoReply == [route |-> "none", status |-> 0, lockRefused |-> FALSE]

NoTx == [kind |-> "none", slot |-> 0, raw |-> <<>>, createAta |-> FALSE,
         landed |-> FALSE, before |-> 0, after |-> 0]

NoDecision == [asked |-> FALSE, force |-> FALSE, readOk |-> FALSE,
               estimate |-> 0, shouldClaim |-> FALSE, claimableFees |-> 0]

\* no OrchestrationResult: absent signatures are FALSE; stages counts the
\* stages that completed before executeClaimFlow returned
NoResult == [returned |-> FALSE, success |-> FALSE, error |-> "",
             event |-> "none", posts |-> 0, delivered |-> FALSE,
             stages |-> 0,
             claimSignature |-> FALSE, treasurySignature |-> FALSE,
             buybackSignature |-> FALSE, burnSignature |-> FALSE,
             claimedAmount |-> Zero, treasuryAmount |-> Zero,
             buybackAmount |-> Zero]

\* no BuybackResult; measured tells whether balanceAfter was read, delta is
\* balanceBefore - balanceAfter in lamports
NoStage == [name |-> "none", success |-> FALSE, solSpent |-> Zero,
            measured |-> FALSE, delta |-> 0]

\* what a step submits or answers, where the exploration records it
Emit(out, none) == IF scope.outputs THEN out ELSE none

\* the step submits no transaction and asks no shouldClaimFees
Silent ==
  tx' = NoTx /\ decision' = NoDecision /\ result' = NoResult /\ stage' = NoStage

\* the step returns no OrchestrationResult and no BuybackResult
NoReturn == result' = NoResult /\ stage' = NoStage

Common ==  /\ claimInProgress = FALSE
  /\ schedulerStatus = [checksPerformed |-> 0, claimsTriggered |-> 0,
                        errors |-> <<>>]
  /\ systemStatus = [is_paused |-> FALSE, total_checks |-> 0,
                     total_claims |-> 0, error_count |-> 0, last_error |-> ""]
  /\ claims = <<>>
  /\ buybacks = <<>>
  /\ burns = <<>>
  /\ monitorChecks = <<>>
  /\ task = [t \in Slots |-> IdleTask]
  /\ started = 0
  /\ reply = NoReply
  /\ tx = NoTx
  /\ decision = NoDecision
  /\ result = NoResult
  /\ rpc = [send |-> IdleSend, confirm |-> IdleConfirm]
  /\ stage = NoStage

Init ==
  /\ config \in { c \in Configs : c.treasuryPercent = 50 /\ c.webhookUrl }
  /\ mint = [decimals |-> 6, incineratorAta |-> TRUE]
  /\ scope = [slots |-> MaxConcurrent,
              balances |-> BalanceCasesLean,
              tokens |-> TokenAmountsLean, spent |-> SpentCasesLean,
              outputs |-> FALSE, runs |-> MaxRuns]
  /\ Common

InitSeq ==
  /\ config \in { c \in Configs :
                    /\ ConfigAccepted(c.treasuryPercent, c.buybackPercent)
                    /\ c.webhookUrl }
  /\ mint \in [decimals : MintDecimals, incineratorAta : {FALSE}]
  /\ scope = [slots |-> 1, balances |-> BalanceCases,
              tokens |-> TokenAmounts, spent |-> SpentCasesLean,
              outputs |-> TRUE, runs |-> MaxRuns]
  /\ Common

\* one trigger at a time, every balance case around the buy
InitBuyback ==
  /\ config \in { c \in Configs : c.treasuryPercent = 50 }
  /\ mint = [decimals |-> 6, incineratorAta |-> FALSE]
  /\ scope = [slots |-> 1, balances |-> BalanceCasesLean,
              tokens |-> TokenAmountsLean, spent |-> SpentCases,
              outputs |-> TRUE, runs |-> MaxRuns]
  /\ Common

Active(t) == task[t].pc # "idle"

\* a new trigger takes the lowest free slot
CanStart(t) ==
  /\ started < scope.runs
  /\ ~Active(t)
  /\ t <= scope.slots
  /\ \A u \in Slots : u < t => Active(u)

Set(t, r) == task' = [task EXCEPT ![t] = r]

New(kind, pc) == [IdleTask EXCEPT !.kind = kind, !.pc = pc,
                                  !.run = started + 1]

\* ------------------------------------------------------------ feeMonitor
ShouldClaimNoThreshold(force, readOk, logOk, est) ==
  [shouldClaim |-> TRUE, claimableFees |-> est]

\* shouldClaimFees(force): checkClaimableFees reads the estimate and inserts
\* a MonitorCheck; any throw inside is caught and answered "do not claim".
\* readOk = the estimate was read, logOk = insertMonitorCheck succeeded.
ShouldClaim(force, readOk, logOk, est) ==
  IF ~(readOk /\ logOk) THEN [shouldClaim |-> FALSE, claimableFees |-> 0]
  ELSE IF force THEN [shouldClaim |-> TRUE, claimableFees |-> est]
  ELSE IF est < claimThresholdLamports
       THEN [shouldClaim |-> FALSE, claimableFees |-> est]
       ELSE [shouldClaim |-> TRUE, claimableFees |-> est]

\* what a call of shouldClaimFees was given and what it answered
Asked(force, readOk, est, answer) ==
  [asked |-> TRUE, force |-> force, readOk |-> readOk,
   estimate |-> IF readOk THEN est ELSE 0,
   shouldClaim |-> answer.shouldClaim,
   claimableFees |-> answer.claimableFees]

MonitorLogged(readOk, logOk, est) ==
  IF readOk /\ logOk
  THEN Append(monitorChecks, [claimable_fees |-> est,
                              threshold |-> claimThresholdLamports,
                              triggered |-> est >= claimThresholdLamports])
  ELSE monitorChecks

\* ------------------------------------------------------------- scheduler
\* cron fires monitoringTask: runs up to the first await (getSystemStatus)
TickStart(t) ==
  /\ CanStart(t)
  /\ started' = started + 1
  /\ schedulerStatus' = [schedulerStatus EXCEPT
                           !.checksPerformed = schedulerStatus.checksPerformed + 1]
  /\ Set(t, New("tick", "t_status"))
  /\ UNCHANGED <<rpc, config, claimInProgress, systemStatus, claims, buybacks,
                 burns, monitorChecks, scope, mint>>
  /\ reply' = NoReply /\ Silent

\* POST /api/admin/force-check -> forceCheck(): the route answers 200 at
\* once and only logs a rejection of forceCheck
ForceCheck(t) ==
  /\ CanStart(t)
  /\ started' = started + 1
  /\ IF claimInProgress
     THEN /\ reply' = [route |-> "force-check", status |-> 200,
                       lockRefused |-> TRUE]
          /\ UNCHANGED <<schedulerStatus, task>>
     ELSE /\ reply' = [route |-> "force-check", status |-> 200,
                       lockRefused |-> FALSE]
          /\ Set(t, New("force", "t_status"))
          /\ schedulerStatus' = [schedulerStatus EXCEPT
                           !.checksPerformed = schedulerStatus.checksPerformed + 1]
  /\ UNCHANGED <<rpc, config, claimInProgress, systemStatus, claims, buybacks,
                 burns, monitorChecks, scope, mint>>
  /\ Silent

\* leave monitoringTask through its finally block
TickEnd(t, r) ==
  /\ claimInProgress' = FinallyLock(claimInProgress)
  /\ Set(t, IdleTask)

\* an exception reached the catch block of monitoringTask
TickCatch(t, r, msg) ==
  /\ Set(t, [r EXCEPT !.pc = "t_catch", !.error = msg])
  /\ UNCHANGED claimInProgress

SkipNever(status) == FALSE
\* if (systemStatus.is_paused) return
SkipPaused(status) == status.is_paused

\* getSystemStatus() resolved: pause check, then lock check
TickStatus(t) ==
  /\ task[t].pc = "t_status"
  /\ \E dbOk \in BOOLEAN :
       IF ~dbOk THEN TickCatch(t, task[t], "Persistence")
       ELSE IF SkipPaused(systemStatus) THEN TickEnd(t, task[t])
       ELSE IF claimInProgress THEN TickEnd(t, task[t])
       ELSE /\ Set(t, [task[t] EXCEPT !.pc = "t_update"])
            /\ UNCHANGED claimInProgress
  /\ UNCHANGED <<rpc, config, schedulerStatus, systemStatus, claims, buybacks,
                 burns, monitorChecks, started, scope, mint>>
  /\ reply' = NoReply /\ Silent

\* updateSystemStatus({lastCheckTimestamp, totalChecks}) resolved
TickUpdate(t) ==
  /\ task[t].pc = "t_update"
  /\ \E dbOk \in BOOLEAN :
       IF ~dbOk
       THEN /\ TickCatch(t, task[t], "Persistence")
            /\ UNCHANGED systemStatus
       ELSE /\ systemStatus' = [systemStatus EXCEPT
                                  !.total_checks = schedulerStatus.checksPerformed]
            /\ Set(t, [task[t] EXCEPT !.pc = "t_decide"])
            /\ UNCHANGED claimInProgress
  /\ UNCHANGED <<rpc, config, schedulerStatus, claims, buybacks, burns,
                 monitorChecks, started, scope, mint>>
  /\ reply' = NoReply /\ Silent

\* shouldClaimFees() resolved: decide, take the lock, enter executeClaimFlow
TickDecide(t) ==
  /\ task[t].pc = "t_decide"
  /\ \E readOk \in BOOLEAN, logOk \in BOOLEAN, est \in Estimates :
       LET answer == ShouldClaim(FALSE, readOk, logOk, est) IN
       /\ monitorChecks' = MonitorLogged(readOk, logOk, est)
       /\ decision' = Emit(Asked(FALSE, readOk, est, answer), NoDecision)
       /\ IF ~answer.shouldClaim \/ ~config.autoClaimEnabled
          THEN /\ TickEnd(t, task[t])
               /\ UNCHANGED schedulerStatus
          ELSE /\ claimInProgress' = TRUE
               /\ schedulerStatus' = [schedulerStatus EXCEPT
                     !.claimsTriggered = schedulerStatus.claimsTriggered + 1]
               /\ Set(t, [task[t] EXCEPT !.pc = "validate", !.force = FALSE,
                                         !.locked = TRUE])
  /\ UNCHANGED <<rpc, config, systemStatus, claims, buybacks, burns, started,
                 scope, mint>>
  /\ reply' = NoReply /\ tx' = NoTx /\ NoReturn

\* executeClaimFlow returned success: updateSystemStatus({totalClaims})
TickSuccess(t) ==
  /\ task[t].pc = "t_success"
  /\ \E dbOk \in BOOLEAN :
       IF ~dbOk
       THEN /\ TickCatch(t, task[t], "Persistence")
            /\ UNCHANGED systemStatus
       ELSE /\ systemStatus' = [systemStatus EXCEPT
                                  !.total_claims = schedulerStatus.claimsTriggered]
            /\ TickEnd(t, task[t])
  /\ UNCHANGED <<rpc, config, schedulerStatus, claims, buybacks, burns,
                 monitorChecks, started, scope, mint>>
  /\ reply' = NoReply /\ Silent

\* catch block: record the error, read error_count
TickCatchRead(t) ==
  /\ task[t].pc = "t_catch"
  /\ schedulerStatus' = [schedulerStatus EXCEPT
                           !.errors = PushError(schedulerStatus.errors,
                                         ErrorInfo(schedulerStatus.checksPerformed,
                                                   task[t].error))]
  /\ \E dbOk \in BOOLEAN :
       IF ~dbOk THEN TickEnd(t, task[t])
       ELSE /\ Set(t, [task[t] EXCEPT !.pc = "t_catch_update",
                                      !.errCount = systemStatus.error_count])
            /\ UNCHANGED claimInProgress
  /\ UNCHANGED <<rpc, config, systemStatus, claims, buybacks, burns,
                 monitorChecks, started, scope, mint>>
  /\ reply' = NoReply /\ Silent

\* catch block: updateSystemStatus({errorCount, lastError}), then finally
TickCatchUpdate(t) ==
  /\ task[t].pc = "t_catch_update"
  /\ \E dbOk \in BOOLEAN :
       IF ~dbOk
       THEN /\ TickEnd(t, task[t])
            /\ UNCHANGED systemStatus
       ELSE /\ systemStatus' = [systemStatus EXCEPT
                                  !.error_count = task[t].errCount + 1,
                                  !.last_error = task[t].error]
            /\ TickEnd(t, task[t])
  /\ UNCHANGED <<rpc, config, schedulerStatus, claims, buybacks, burns,
                 monitorChecks, started, scope, mint>>
  /\ reply' = NoReply /\ Silent

\* POST /api/admin/control { action: pause | resume }
Pause ==
  /\ ~systemStatus.is_paused
  /\ systemStatus' = [systemStatus EXCEPT !.is_paused = TRUE]
  /\ UNCHANGED <<rpc, config, claimInProgress, schedulerStatus, claims, buybacks,
                 burns, monitorChecks, task, started, scope, mint>>
  /\ reply' = NoReply /\ Silent

Resume ==
  /\ systemStatus.is_paused
  /\ systemStatus' = [systemStatus EXCEPT !.is_paused = FALSE]
  /\ UNCHANGED <<rpc, config, claimInProgress, schedulerStatus, claims, buybacks,
                 burns, monitorChecks, task, started, scope, mint>>
  /\ reply' = NoReply /\ Silent

\* --------------------------------------------------------- manual claim
\* POST /api/claim up to the first await inside executeClaimFlow
ManualClaim(t) ==
  /\ CanStart(t)
  /\ started' = started + 1
  /\ IF ~config.enableManualClaim
     THEN /\ reply' = [route |-> "claim", status |-> 403,
                       lockRefused |-> FALSE]
          /\ UNCHANGED task
     ELSE IF claimInProgress
     THEN /\ reply' = [route |-> "claim", status |-> 409,
                       lockRefused |-> TRUE]
          /\ UNCHANGED task
     ELSE /\ \E force \in BOOLEAN :
               Set(t, [New("manual", "validate") EXCEPT !.force = force])
          /\ reply' = NoReply
  /\ UNCHANGED <<rpc, config, claimInProgress, schedulerStatus, systemStatus,
                 claims, buybacks, burns, monitorChecks, scope, mint>>
  /\ Silent

\* ---------------------------------------------------- executeClaimFlow
\* a stage threw or returned failure: jump to the catch block of
\* executeClaimFlow
AbortSwallowed(t, r, msg) ==
  Set(t, [r EXCEPT !.error = msg])

AbortToBurn(t, r, msg) ==
  Set(t, [r EXCEPT !.pc = "burn_tx", !.error = msg])

Abort(t, r, msg) ==
  Set(t, [r EXCEPT !.pc = "notify", !.error = msg, !.claim = NoClaim,
                   !.claimId = 0])

\* the message of InsufficientFeesError(current, threshold): it names the
\* estimate, which is 0 when shouldClaimFees caught an exception
InsufficientFeesError(current) ==
  IF current = 0 THEN "InsufficientFees(0)" ELSE "InsufficientFees"

\* Step 1: validateFeesForClaim(force)
Validate(t) ==
  /\ task[t].pc = "validate"
  /\ \E readOk \in BOOLEAN, logOk \in BOOLEAN, est \in Estimates :
       LET answer == ShouldClaim(task[t].force, readOk, logOk, est)
           r == [task[t] EXCEPT !.begun = <<"ValidateThreshold">>]
       IN
       /\ monitorChecks' = MonitorLogged(readOk, logOk, est)
       /\ decision' = Emit(Asked(task[t].force, readOk, est, answer),
                           NoDecision)
       /\ IF ~answer.shouldClaim
          THEN Abort(t, r, InsufficientFeesError(answer.claimableFees))
          ELSE Set(t, [r EXCEPT !.pc = "claim_tx", !.done = 1,
                                !.est = answer.claimableFees])
  /\ UNCHANGED <<rpc, config, claimInProgress, schedulerStatus, systemStatus,
                 claims, buybacks, burns, started, scope, mint>>
  /\ reply' = NoReply /\ tx' = NoTx /\ NoReturn

\* Step 2, claimCreatorFees up to insertClaim: balance before, claim
\* transaction, balance after, split, INSERT ... 'pending'
ClaimTx(t) ==
  /\ task[t].pc = "claim_tx"
  /\ \E txOk \in BOOLEAN, bal \in scope.balances, insertOk \in BOOLEAN :
     \E amounts \in { ClaimAmountsMemo[bal][<<config.treasuryPercent,
                                              config.buybackPercent>>]
                                       [task[t].est] } :
       LET row == [id |-> Len(claims) + 1,
                   claimed_amount |-> amounts.claimed_amount,
                   treasury_amount |-> amounts.treasury_amount,
                   buyback_amount |-> amounts.buyback_amount,
                   status |-> "pending",
                   run |-> task[t].run]
           r == [task[t] EXCEPT !.begun = Append(task[t].begun, "Claim"),
                                !.est = 0]
       IN /\ tx' = Emit([NoTx EXCEPT !.kind = "claim", !.slot = t,
                                     !.landed = txOk,
                                     !.before = bal.before,
                                     !.after = bal.after], NoTx)
          /\ IF ~txOk \/ ~amounts.valid \/ ~insertOk
             THEN /\ Abort(t, r, "ClaimFailed")
                  /\ UNCHANGED claims
             ELSE /\ claims' = Append(claims, row)
                  /\ Set(t, [r EXCEPT
                       !.pc = "claim_confirm", !.rowId = row.id,
                       !.est = task[t].est,
                       !.claim = [success |-> FALSE,
                                  claimedAmount |-> amounts.claimedAmount,
                                  treasuryAmount |-> amounts.treasuryAmount,
                                  buybackAmount |-> amounts.buybackAmount,
                                  balanceBefore |-> bal.before,
                                  balanceAfter |-> bal.after,
                                  solBefore |-> amounts.solBefore,
                                  solAfter |-> amounts.solAfter]])
  /\ UNCHANGED <<rpc, config, claimInProgress, schedulerStatus, systemStatus,
                 buybacks, burns, monitorChecks, started, scope, mint>>
  /\ reply' = NoReply /\ decision' = NoDecision /\ NoReturn

\* updateClaimStatus(claimId, 'confirmed') resolved or threw
ClaimConfirm(t) ==
  /\ task[t].pc = "claim_confirm"
  /\ \E dbOk \in BOOLEAN :
       IF dbOk
       THEN /\ claims' = UpdateStatus(claims, task[t].rowId, "confirmed")
            /\ Set(t, [task[t] EXCEPT !.pc = "treasury", !.rowId = 0,
                                      !.est = 0, !.done = 2,
                                      !.claim.success = TRUE])
       ELSE /\ Set(t, [task[t] EXCEPT !.pc = "claim_fail", !.est = 0])
            /\ UNCHANGED claims
  /\ UNCHANGED <<rpc, config, claimInProgress, schedulerStatus, systemStatus,
                 buybacks, burns, monitorChecks, started, scope, mint>>
  /\ reply' = NoReply /\ Silent

\* catch of claimCreatorFees: updateClaimStatus(claimId, 'failed', ...)
ClaimFail(t) ==
  /\ task[t].pc = "claim_fail"
  /\ \E dbOk \in BOOLEAN :
       IF dbOk
       THEN /\ claims' = UpdateStatus(claims, task[t].rowId, "failed")
            /\ Abort(t, [task[t] EXCEPT !.rowId = 0, !.claim = NoClaim],
                     "ClaimFailed")
       ELSE /\ Abort(t, [task[t] EXCEPT !.rowId = 0, !.claim = NoClaim],
                     "Persistence")
            /\ UNCHANGED claims
  /\ UNCHANGED <<rpc, config, claimInProgress, schedulerStatus, systemStatus,
                 buybacks, burns, monitorChecks, started, scope, mint>>
  /\ reply' = NoReply /\ Silent

\* getClaimById(1) ; claimId = claimRecord?.id || 1 ; Step 3:
\* transferToTreasury(claimResult.treasuryAmount)
Treasury(t) ==
  /\ task[t].pc = "treasury"
  /\ \E dbOk \in BOOLEAN, txOk \in BOOLEAN :
       LET r == [task[t] EXCEPT !.begun = Append(task[t].begun, "Treasury")]
       IN IF ~dbOk
          THEN /\ Abort(t, task[t], "Persistence")
               /\ tx' = NoTx
          ELSE /\ tx' = Emit([NoTx EXCEPT !.kind = "treasury", !.slot = t,
                                         !.landed = txOk], NoTx)
               /\ IF ~txOk THEN Abort(t, r, "TreasuryFailed")
                  ELSE Set(t, [r EXCEPT !.pc = "buyback_tx", !.done = 3,
                                        !.claimId = LookupIdOrOne(claims, 1)])
  /\ UNCHANGED <<rpc, config, claimInProgress, schedulerStatus, systemStatus,
                 claims, buybacks, burns, monitorChecks, started, scope, mint>>
  /\ reply' = NoReply /\ decision' = NoDecision /\ NoReturn

\* the BuybackResult of the try block: solSpent is actualSolSpent
BuybackSuccess(spent) ==
  [name |-> "buyback", success |-> TRUE,
   solSpent |-> SolSpentMemo[spent].sol,
   measured |-> TRUE, delta |-> spent.before - spent.after]

\* the BuybackResult of the catch block: solSpent is amountSol; balanceAfter
\* was read when buyToken had returned
BuybackFailure(amountSol, bought, spent) ==
  [name |-> "buyback", success |-> FALSE, solSpent |-> amountSol,
   measured |-> bought,
   delta |-> IF bought THEN spent.before - spent.after ELSE 0]

\* Step 4, buybackTokens(claimId, buybackAmount) up to insertBuyback
BuybackTx(t) ==
  /\ task[t].pc = "buyback_tx"
  /\ \E txOk \in BOOLEAN, tokensPurchased \in scope.tokens,
        spent \in scope.spent, insertOk \in BOOLEAN :
       LET r == [task[t] EXCEPT !.begun = Append(task[t].begun, "Buyback")]
       IN /\ tx' = Emit([NoTx EXCEPT !.kind = "buy", !.slot = t,
                                     !.landed = txOk], NoTx)
          /\ IF ~txOk \/ ~insertOk
             THEN /\ Abort(t, r, "BuybackFailed")
                  /\ stage' = Emit(BuybackFailure(task[t].claim.buybackAmount,
                                                  txOk, spent), NoStage)
                  /\ UNCHANGED buybacks
             ELSE /\ buybacks' = Append(buybacks,
                                 [id |-> Len(buybacks) + 1,
                                  claim_id |-> task[t].claimId,
                                  sol_spent |-> SolSpentMemo[spent].lamports,
                                  balances |-> spent,
                                  status |-> "pending", run |-> task[t].run])
                  /\ stage' = NoStage
                  /\ Set(t, [r EXCEPT !.pc = "buyback_confirm",
                                      !.rowId = Len(buybacks) + 1,
                                      !.tokens = tokensPurchased])
  /\ UNCHANGED <<rpc, config, claimInProgress, schedulerStatus, systemStatus,
                 claims, burns, monitorChecks, started, scope, mint>>
  /\ reply' = NoReply /\ decision' = NoDecision /\ result' = NoResult

\* updateBuybackStatus(buybackId, 'confirmed') resolved or threw
BuybackConfirm(t) ==
  /\ task[t].pc = "buyback_confirm"
  /\ \E dbOk \in BOOLEAN :
       IF dbOk
       THEN /\ buybacks' = UpdateStatus(buybacks, task[t].rowId, "confirmed")
            /\ Set(t, [task[t] EXCEPT !.pc = "burn_tx", !.rowId = 0,
                                      !.done = 4])
            /\ stage' = Emit(BuybackSuccess(buybacks[task[t].rowId].balances),
                             NoStage)
       ELSE /\ Set(t, [task[t] EXCEPT !.pc = "buyback_fail",
                                      !.tokens = NoTokens])
            /\ stage' = NoStage
            /\ UNCHANGED buybacks
  /\ UNCHANGED <<rpc, config, claimInProgress, schedulerStatus, systemStatus,
                 claims, burns, monitorChecks, started, scope, mint>>
  /\ reply' = NoReply /\ tx' = NoTx /\ decision' = NoDecision
  /\ result' = NoResult

\* catch of buybackTokens: updateBuybackStatus(buybackId, 'failed', ...)
BuybackFail(t) ==
  /\ task[t].pc = "buyback_fail"
  /\ \E dbOk \in BOOLEAN :
       IF dbOk
       THEN /\ buybacks' = UpdateStatus(buybacks, task[t].rowId, "failed")
            /\ Abort(t, [task[t] EXCEPT !.rowId = 0], "BuybackFailed")
            /\ stage' = Emit(BuybackFailure(task[t].claim.buybackAmount, TRUE,
                                            buybacks[task[t].rowId].balances),
                             NoStage)
       ELSE /\ Abort(t, [task[t] EXCEPT !.rowId = 0], "Persistence")
            /\ stage' = NoStage
            /\ UNCHANGED buybacks
  /\ UNCHANGED <<rpc, config, claimInProgress, schedulerStatus, systemStatus,
                 claims, burns, monitorChecks, started, scope, mint>>
  /\ reply' = NoReply /\ tx' = NoTx /\ decision' = NoDecision
  /\ result' = NoResult

\* getBuybackById(1) ; buybackId = buybackRecord?.id || 1 ; Step 5,
\* burnPurchasedTokens(buybackId, tokens) up to insertBurn
BurnTx(t) ==
  /\ task[t].pc = "burn_tx"
  /\ \E dbOk \in BOOLEAN, mintOk \in BOOLEAN, ataReadOk \in BOOLEAN,
        txOk \in BOOLEAN, insertOk \in BOOLEAN :
       LET r == [task[t] EXCEPT !.begun = Append(task[t].begun, "Burn"),
                                !.tokens = NoTokens]
           amount == BurnAmountMemo[task[t].tokens][mint.decimals]
           needsAta == NeedsAta(ataReadOk, mint.incineratorAta)
           landed == txOk /\ ~(needsAta /\ mint.incineratorAta)
       IN IF ~dbOk
          THEN /\ Abort(t, [task[t] EXCEPT !.tokens = NoTokens], "Persistence")
               /\ tx' = NoTx
               /\ UNCHANGED <<burns, mint>>
          ELSE IF ~amount.accepted \/ ~mintOk
          THEN /\ Abort(t, r, IF ~amount.accepted THEN "InvalidTokenAmount"
                                ELSE "BurnFailed")
               /\ tx' = NoTx
               /\ UNCHANGED <<burns, mint>>
          ELSE /\ tx' = Emit([NoTx EXCEPT !.kind = "burn", !.slot = t,
                                         !.raw = amount.raw,
                                         !.createAta = needsAta,
                                         !.landed = landed], NoTx)
               /\ mint' = [mint EXCEPT !.incineratorAta = @ \/ landed]
               /\ IF ~landed \/ ~insertOk
                  THEN /\ Abort(t, r, "BurnFailed")
                       /\ UNCHANGED burns
                  ELSE /\ burns' = Append(burns,
                                     [id |-> Len(burns) + 1,
                                      buyback_id |-> LookupIdOrOne(buybacks, 1),
                                      status |-> "pending",
                                      run |-> task[t].run])
                       /\ Set(t, [r EXCEPT !.pc = "burn_confirm",
                                           !.rowId = Len(burns) + 1])
  /\ UNCHANGED <<rpc, config, claimInProgress, schedulerStatus, systemStatus,
                 claims, buybacks, monitorChecks, started, scope>>
  /\ reply' = NoReply /\ decision' = NoDecision /\ NoReturn

\* updateBurnStatus(burnId, 'confirmed') resolved or threw
BurnConfirm(t) ==
  /\ task[t].pc = "burn_confirm"
  /\ \E dbOk \in BOOLEAN :
       IF dbOk
       THEN /\ burns' = UpdateStatus(burns, task[t].rowId, "confirmed")
            /\ Set(t, [task[t] EXCEPT !.pc = "notify", !.rowId = 0,
                                      !.done = 5])
       ELSE /\ Set(t, [task[t] EXCEPT !.pc = "burn_fail"])
            /\ UNCHANGED burns
  /\ UNCHANGED <<rpc, config, claimInProgress, schedulerStatus, systemStatus,
                 claims, buybacks, monitorChecks, started, scope, mint>>
  /\ reply' = NoReply /\ Silent

\* catch of burnPurchasedTokens: updateBurnStatus(burnId, 'failed', ...)
BurnFail(t) ==
  /\ task[t].pc = "burn_fail"
  /\ \E dbOk \in BOOLEAN :
       IF dbOk
       THEN /\ burns' = UpdateStatus(burns, task[t].rowId, "failed")
            /\ Abort(t, [task[t] EXCEPT !.rowId = 0], "BurnFailed")
       ELSE /\ Abort(t, [task[t] EXCEPT !.rowId = 0], "Persistence")
            /\ UNCHANGED burns
  /\ UNCHANGED <<rpc, config, claimInProgress, schedulerStatus, systemStatus,
                 claims, buybacks, monitorChecks, started, scope, mint>>
  /\ reply' = NoReply /\ Silent

\* the result of the try block, whatever happened before
OrchestrationResultOfTry(r) ==
  [NoResult EXCEPT !.returned = TRUE, !.success = TRUE,
                   !.event = "claim_complete", !.stages = r.done,
                   !.claimedAmount = r.claim.claimedAmount,
                   !.treasuryAmount = r.claim.treasuryAmount,
                   !.buybackAmount = r.claim.buybackAmount]

\* the OrchestrationResult of executeClaimFlow and the event it posted to
\* the webhook: the result of the try block, or that of the catch block
OrchestrationResult(r) ==
  IF r.error = ""
  THEN [NoResult EXCEPT !.returned = TRUE, !.success = TRUE,
                        !.event = "claim_complete", !.stages = r.done,
                        !.claimSignature = TRUE, !.treasurySignature = TRUE,
                        !.buybackSignature = TRUE, !.burnSignature = TRUE,
                        !.claimedAmount = r.claim.claimedAmount,
                        !.treasuryAmount = r.claim.treasuryAmount,
                        !.buybackAmount = r.claim.buybackAmount]
  ELSE [NoResult EXCEPT !.returned = TRUE, !.error = r.error,
                        !.event = "claim_failed", !.stages = r.done]

\* if (webhookUrl) { try { await axios.post(webhookUrl, ...) } catch {} }:
\* what was posted for the result, and whether the post resolved
WebhookNever(res, url, postOk) == res

WebhookPost(res, url, postOk) ==
  IF url
  THEN [res EXCEPT !.posts = 1, !.delivered = postOk]
  ELSE [res EXCEPT !.event = "none"]

\* executeClaimFlow returned: its locals are gone; the record of the stages
\* it began and completed stays until the tick ends
Returned(r) == [r EXCEPT !.claim = NoClaim, !.claimId = 0]

\* the webhook post resolved; executeClaimFlow returns its result to the
\* caller, which continues up to its next await
Notify(t) ==
  /\ task[t].pc = "notify"
  /\ IF task[t].kind = "manual"
     THEN /\ Set(t, IdleTask)
          /\ reply' = [route |-> "claim",
                       status |-> IF task[t].error = "" THEN 200 ELSE 500,
                       lockRefused |-> FALSE]
          /\ UNCHANGED claimInProgress
     ELSE IF task[t].error = ""
     THEN /\ Set(t, [Returned(task[t]) EXCEPT !.pc = "t_success"])
          /\ UNCHANGED claimInProgress
          /\ reply' = NoReply
     ELSE /\ TickCatch(t, Returned(task[t]), task[t].error)
          /\ reply' = NoReply
  /\ UNCHANGED <<rpc, config, schedulerStatus, systemStatus, claims, buybacks,
                 burns, monitorChecks, started, scope, mint>>
  /\ tx' = NoTx /\ decision' = NoDecision
  /\ \E postOk \in BOOLEAN :
       result' = Emit(WebhookPost(OrchestrationResult(task[t]),
                                  config.webhookUrl, postOk), NoResult)
  /\ stage' = NoStage

\* ------------------------------------------------------------------ spec
Next ==
  \/ \E t \in Slots : TickStart(t)
  \/ \E t \in Slots : ForceCheck(t)
  \/ \E t \in Slots : ManualClaim(t)
  \/ \E t \in Slots : TickStatus(t)
  \/ \E t \in Slots : TickUpdate(t)
  \/ \E t \in Slots : TickDecide(t)
  \/ \E t \in Slots : TickSuccess(t)
  \/ \E t \in Slots : TickCatchRead(t)
  \/ \E t \in Slots : TickCatchUpdate(t)
  \/ \E t \in Slots : Validate(t)
  \/ \E t \in Slots : ClaimTx(t)
  \/ \E t \in Slots : ClaimConfirm(t)
  \/ \E t \in Slots : ClaimFail(t)
  \/ \E t \in Slots : Treasury(t)
  \/ \E t \in Slots : BuybackTx(t)
  \/ \E t \in Slots : BuybackConfirm(t)
  \/ \E t \in Slots : BuybackFail(t)
  \/ \E t \in Slots : BurnTx(t)
  \/ \E t \in Slots : BurnConfirm(t)
  \/ \E t \in Slots : BurnFail(t)
  \/ \E t \in Slots : Notify(t)
  \/ Pause
  \/ Resume

Spec == Init /\ [][Next]_vars

SpecSeq == InitSeq /\ [][Next]_vars

SpecBuyback == InitBuyback /\ [][Next]_vars

\* burnPurchasedTokens called with any tokenAmount string, as Step 5 of a
\* run whose first four stages are done
InitBurn ==
  /\ config \in { c \in Configs :
                    ConfigAccepted(c.treasuryPercent, c.buybackPercent) }
  /\ mint \in [decimals : MintDecimals, incineratorAta : BOOLEAN]
  /\ scope = [slots |-> 1, balances |-> BalanceCasesLean,
              tokens |-> TokenAmountsLean, spent |-> SpentCasesLean,
              outputs |-> TRUE, runs |-> MaxRuns]
  /\ claimInProgress = FALSE
  /\ schedulerStatus = [checksPerformed |-> 0, claimsTriggered |-> 0,
                        errors |-> <<>>]
  /\ systemStatus = [is_paused |-> FALSE, total_checks |-> 0,
                     total_claims |-> 0, error_count |-> 0, last_error |-> ""]
  /\ claims = <<>> /\ buybacks = <<>> /\ burns = <<>>
  /\ monitorChecks = <<>>
  /\ \E tokenAmount \in TokenStrings :
       task = [t \in Slots |->
                 IF t = 1
                 THEN [IdleTask EXCEPT !.kind = "manual", !.pc = "burn_tx",
                                       !.run = 1, !.done = 4,
                                       !.begun = <<"ValidateThreshold",
                                                   "Claim", "Treasury",
                                                   "Buyback">>,
                                       !.tokens = tokenAmount]
                 ELSE IdleTask]
  /\ started = 1
  /\ reply = NoReply /\ tx = NoTx /\ decision = NoDecision
  /\ result = NoResult /\ stage = NoStage
  /\ rpc = [send |-> IdleSend, confirm |-> IdleConfirm]

BurnNext ==
  \/ \E t \in Slots : BurnTx(t)
  \/ \E t \in Slots : BurnConfirm(t)
  \/ \E t \in Slots : BurnFail(t)
  \/ \E t \in Slots : Notify(t)

BurnSpec == InitBurn /\ [][BurnNext]_vars

\* a process started on a paused system whose ticks only read the status:
\* a tick skips, or getSystemStatus throws and the tick ends in the catch
InitErrors ==
  /\ config \in { c \in Configs : c.treasuryPercent = 50 /\ c.webhookUrl }
  /\ mint = [decimals |-> 6, incineratorAta |-> TRUE]
  /\ scope = [slots |-> 1, balances |-> BalanceCasesLean,
              tokens |-> TokenAmountsLean, spent |-> SpentCasesLean,
              outputs |-> FALSE, runs |-> MaxTicks]
  /\ claimInProgress = FALSE
  /\ schedulerStatus = [checksPerformed |-> 0, claimsTriggered |-> 0,
                        errors |-> <<>>]
  /\ systemStatus = [is_paused |-> TRUE, total_checks |-> 0,
                     total_claims |-> 0, error_count |-> 0, last_error |-> ""]
  /\ claims = <<>> /\ buybacks = <<>> /\ burns = <<>>
  /\ monitorChecks = <<>>
  /\ task = [t \in Slots |-> IdleTask]
  /\ started = 0
  /\ reply = NoReply /\ tx = NoTx /\ decision = NoDecision
  /\ result = NoResult /\ stage = NoStage
  /\ rpc = [send |-> IdleSend, confirm |-> IdleConfirm]

ErrorsNext ==
  \/ \E t \in Slots : TickStart(t)
  \/ \E t \in Slots : TickStatus(t)
  \/ \E t \in Slots : TickCatchRead(t)
  \/ \E t \in Slots : TickCatchUpdate(t)

ErrorsSpec == InitErrors /\ [][ErrorsNext]_vars

\* the continuation of task t after the await it is suspended at
Step(t) ==
  \/ TickStatus(t) \/ TickUpdate(t) \/ TickDecide(t) \/ TickSuccess(t)
  \/ TickCatchRead(t) \/ TickCatchUpdate(t)
  \/ Validate(t) \/ ClaimTx(t) \/ ClaimConfirm(t) \/ ClaimFail(t)
  \/ Treasury(t)
  \/ BuybackTx(t) \/ BuybackConfirm(t) \/ BuybackFail(t)
  \/ BurnTx(t) \/ BurnConfirm(t) \/ BurnFail(t)
  \/ Notify(t)

\* every awaited call settles and the event loop resumes the task
FairSpec == Spec /\ \A t \in Slots : WF_vars(Step(t))

TypeOK ==
  /\ claimInProgress \in BOOLEAN
  /\ started \in 0..scope.runs
  /\ \A t \in Slots : task[t].kind \in {"none", "tick", "force", "manual"}

\* -------------------------------------- sendTransaction, confirmTransaction
\* everything but the two calls of lib/solana.ts stays as it is
RpcOnly ==
  /\ UNCHANGED <<config, claimInProgress, schedulerStatus, systemStatus,
                 claims, buybacks, burns, monitorChecks, task, started, mint,
                 scope, reply, tx, decision, result, stage>>

\* sendTransaction(transaction, signers, {maxRetries}) up to the first
\* await, or to the throw when the loop body never runs
SendStart ==
  /\ rpc.send.pc = "idle"
  /\ \E retries \in RetryLimits :
       rpc' = [rpc EXCEPT !.send =
                 [IdleSend EXCEPT !.retries = retries,
                                  !.attempt = 1,
                                  !.pc = IF 1 <= retries THEN "attempt"
                                         ELSE "thrown"]]
  /\ RpcOnly

\* sendAndConfirmTransaction settled: return its signature, or catch, then
\* wait before the next attempt, or leave the loop and throw
SendAttempt ==
  /\ rpc.send.pc = "attempt"
  /\ \E ok \in BOOLEAN :
       LET s == [rpc.send EXCEPT !.attempts = @ + 1] IN
       rpc' = [rpc EXCEPT !.send =
                 IF ok THEN [s EXCEPT !.pc = "returned",
                                      !.signature = s.attempt]
                 ELSE IF s.attempt < s.retries
                 THEN [s EXCEPT !.pc = "wait",
                                !.waits = Append(@, Backoff(s.attempt))]
                 ELSE [s EXCEPT !.pc = "thrown", !.attempt = @ + 1]]
  /\ RpcOnly

\* the backoff timer fired: attempt++ and the loop test, which holds
SendWait ==
  /\ rpc.send.pc = "wait"
  /\ rpc' = [rpc EXCEPT !.send.pc = "attempt", !.send.attempt = @ + 1]
  /\ RpcOnly

\* confirmTransaction(signature, timeoutMs) up to the first await
ConfirmStart ==
  /\ rpc.confirm.pc = "idle"
  /\ \E timeoutMs \in ConfirmTimeouts :
       rpc' = [rpc EXCEPT !.confirm =
                 [IdleConfirm EXCEPT !.timeoutMs = timeoutMs,
                                     !.pc = IF WithinTimeout(0, timeoutMs)
                                            THEN "poll" ELSE "timeout"]]
  /\ RpcOnly

\* getTransactionStatus settled after some latency
ConfirmPoll ==
  /\ rpc.confirm.pc = "poll"
  /\ \E rpcOk \in BOOLEAN, value \in {"null", "err", "ok"},
        latency \in Latencies :
       \E status \in {GetTransactionStatus(rpcOk, value)} :
         rpc' = [rpc EXCEPT !.confirm =
                   [@ EXCEPT !.elapsed = @ + latency,
                             !.polls = @ + 1,
                             !.status = status,
                             !.pc = IF status = "confirmed" THEN "true"
                                    ELSE IF status = "failed" THEN "false"
                                    ELSE "sleep"]]
  /\ RpcOnly

\* the 2 s timer fired, possibly late: back to the loop test
ConfirmSleep ==
  /\ rpc.confirm.pc = "sleep"
  /\ \E late \in Latencies :
       \E now \in {rpc.confirm.elapsed + PollIntervalMs + late} :
         rpc' = [rpc EXCEPT !.confirm.elapsed = now,
                            !.confirm.pc =
                              IF WithinTimeout(now, rpc.confirm.timeoutMs)
                              THEN "poll" ELSE "timeout"]
  /\ RpcOnly

SendStep == SendAttempt \/ SendWait

ConfirmStep == ConfirmPoll \/ ConfirmSleep

RpcNext ==
  \/ SendStart
  \/ SendAttempt
  \/ SendWait
  \/ ConfirmStart
  \/ ConfirmPoll
  \/ ConfirmSleep

RpcSpec == Init /\ [][RpcNext]_vars

\* every awaited RPC call settles and every timer fires
RpcFairSpec == RpcSpec /\ WF_vars(SendStep) /\ WF_vars(ConfirmStep)

\* ---------------------------------------------------------------- claims
FlowPcs == {"validate", "claim_tx", "claim_confirm", "claim_fail",
            "treasury", "buyback_tx", "buyback_confirm", "buyback_fail",
            "burn_tx", "burn_confirm", "burn_fail", "notify"}

\* task t is inside executeClaimFlow
InFlow(t) == task[t].pc \in FlowPcs

AllIdle == \A t \in Slots : ~Active(t)

\* C1: single-flight - at every moment at most one executeClaimFlow run is
\* in progress, over all interleavings of ticks, forced checks and manual
\* claims.
C1_SingleFlight == Cardinality({t \in Slots : InFlow(t)}) <= 1

\* C2: a scheduler tick that finds the lock held skips: no Fee Monitor
\* evaluation, no Orchestrator run, no error recorded in the error list or
\* the error counter, and claimInProgress left as it was.
C2_SkipLeavesLock ==
  [][\A t \in Slots :
       (/\ task[t].kind = "tick" /\ task[t].pc = "t_status"
        /\ claimInProgress /\ ~systemStatus.is_paused
        /\ task'[t].pc = "idle")
       => (/\ claimInProgress' = claimInProgress
           /\ monitorChecks' = monitorChecks
           /\ schedulerStatus'.errors = schedulerStatus.errors
           /\ systemStatus'.error_count = systemStatus.error_count
           /\ ~InFlow(t)')]_vars

\* C3: a tick that acquired the lock leaves it released when it ends,
\* whatever the outcome of the run and of the error recording; the lock is
\* held only while a tick that acquired it is still in flight, and from
\* every state where it is held it eventually becomes free.
C3_LockReleased ==
  /\ [][\A t \in Slots :
          (task[t].locked /\ task'[t].pc = "idle") => ~claimInProgress']_vars
  /\ [](claimInProgress => \E t \in Slots : task[t].locked)
  /\ (claimInProgress ~> ~claimInProgress)

\* C3 witness: the only trigger was a tick that took the lock, its run
\* failed, recording the error in SystemStatus threw, and the tick has ended
\* with the lock free.
C3_Witness ==
  /\ started = 1 /\ AllIdle
  /\ schedulerStatus.claimsTriggered = 1
  /\ Len(schedulerStatus.errors) = 1
  /\ systemStatus.error_count = 0
  /\ ~claimInProgress

\* C4: a manual or forced trigger issued while the lock is held is answered
\* with a conflict signal (409) and starts nothing, now or later.
C4_RefusedWithConflict ==
  [][reply'.lockRefused => (reply'.status = 409 /\ task' = task)]_vars

\* the amounts claimCreatorFees computes from the balances of the
\* ClaimResult c when it is handed the estimate e
AmountsFor(c, e) ==
  ClaimAmountsMemo[[before |-> c.balanceBefore, after |-> c.balanceAfter]]
                  [<<config.treasuryPercent, config.buybackPercent>>][e]

C6_ReserveKept ==
  \A t \in Slots :
    task[t].pc = "treasury" =>
      NumLeq(NumAdd(task[t].claim.treasuryAmount, task[t].claim.buybackAmount),
             NumSub(task[t].claim.solAfter, MIN_WALLET_BALANCE_SOL))

\* C6 in lamports: as the shares are persisted and transferred, every
\* successful ClaimResult leaves the reserve in the wallet:
\* treasury_amount + buyback_amount <= balanceAfter - MIN_RESERVE.
C6_ReserveKeptLamports ==
  \A t \in Slots :
    task[t].claim.success =>
      \A i \in DOMAIN claims :
        claims[i].run = task[t].run =>
          claims[i].treasury_amount + claims[i].buyback_amount
            <= task[t].claim.balanceAfter - MIN_WALLET_BALANCE_LAMPORTS

\* C7: every Claim row has treasury_amount + buyback_amount <= claimed_amount
\* in lamports.
C7_SplitWithinClaimed ==
  \A i \in DOMAIN claims :
    claims[i].treasury_amount + claims[i].buyback_amount
      <= claims[i].claimed_amount

\* C8: the Buyback row of a run references the Claim row of the same run,
\* and no two Buyback rows reference the same Claim.
C8_BuybackLinksOwnClaim ==
  /\ \A i \in DOMAIN buybacks :
       \E j \in DOMAIN claims :
         /\ claims[j].run = buybacks[i].run
         /\ buybacks[i].claim_id = claims[j].id
  /\ \A i, k \in DOMAIN buybacks :
       buybacks[i].claim_id = buybacks[k].claim_id => i = k

\* C9: the Burn row of a run references the Buyback row of the same run.
C9_BurnLinksOwnBuyback ==
  \A i \in DOMAIN burns :
    \E j \in DOMAIN buybacks :
      /\ buybacks[j].run = burns[i].run
      /\ burns[i].buyback_id = buybacks[j].id

Monotonic(rows, rowsNext) ==
  /\ Len(rowsNext) >= Len(rows)
  /\ \A i \in DOMAIN rowsNext :
       IF i \in DOMAIN rows
       THEN /\ rows[i].status # "pending" => rowsNext[i].status = rows[i].status
            /\ rowsNext[i].status \in {"pending", "confirmed", "failed"}
       ELSE rowsNext[i].status = "pending"

\* C10: a Claim, Buyback or Burn row is inserted as pending and, once
\* confirmed or failed, never changes status again.
C10_StatusMonotonic ==
  [][/\ Monotonic(claims, claims')
     /\ Monotonic(buybacks, buybacks')
     /\ Monotonic(burns, burns')]_vars

\* C10 witness: after two runs, a row that a persistence failure left
\* failed stands next to a confirmed row of the other run
C10_Witness ==
  /\ started = 2 /\ AllIdle
  /\ \E i, j \in DOMAIN claims :
       /\ claims[i].status = "failed"
       /\ claims[j].status = "confirmed"
       /\ i < j

StageOrder == <<"ValidateThreshold", "Claim", "Treasury", "Buyback", "Burn">>

ConfirmedFor(rows, run) ==
  \E i \in DOMAIN rows : rows[i].run = run /\ rows[i].status = "confirmed"

\* C11: within one run the stages begin in the order ValidateThreshold,
\* Claim, Treasury, Buyback, Burn, each at most once, and a stage begins only
\* after every earlier stage of the run succeeded: a treasury transfer is
\* submitted only by a run whose claim succeeded, a buy only after its
\* treasury transfer succeeded, a burn only after its buyback succeeded.
C11_StagesInOrder ==
  /\ \A t \in Slots :
       /\ Len(task[t].begun) <= Len(StageOrder)
       /\ \A i \in DOMAIN task[t].begun : task[t].begun[i] = StageOrder[i]
       /\ task[t].done <= Len(task[t].begun)
       /\ Len(task[t].begun) <= task[t].done + 1
  /\ tx.kind = "treasury" =>
       /\ task[tx.slot].done >= 2
       /\ ConfirmedFor(claims, task[tx.slot].run)
  /\ tx.kind = "buy" =>
       /\ task[tx.slot].done >= 3
       /\ ConfirmedFor(claims, task[tx.slot].run)
  /\ tx.kind = "burn" =>
       /\ task[tx.slot].done >= 4
       /\ ConfirmedFor(buybacks, task[tx.slot].run)

\* C11 witness: a run went through all five stages
C11_Witness ==
  \E t \in Slots :
    /\ task[t].begun = StageOrder
    /\ task[t].done = 5
    /\ ConfirmedFor(burns, task[t].run)

\* the Buyback stage of the run in slot t failed after its claim and
\* treasury stages succeeded
BuybackStageFailed(t) ==
  /\ task[t].error # ""
  /\ task[t].done = 3
  /\ Len(task[t].begun) >= 4

\* C12: when the claim and the treasury transfer of a run succeeded and its
\* Buyback failed (the trade call included), the run has a confirmed Claim
\* row, no confirmed Buyback row, never begins Burn (no burn transaction, no
\* Burn row), and submits nothing after the failed buy: nothing reverses the
\* treasury transfer.
C12_BuybackFailureStops ==
  \A t \in Slots :
    BuybackStageFailed(t) =>
      /\ ConfirmedFor(claims, task[t].run)
      /\ ~ConfirmedFor(buybacks, task[t].run)
      /\ task[t].begun = SubSeq(StageOrder, 1, 4)
      /\ \A i \in DOMAIN burns : burns[i].run # task[t].run
      /\ tx.slot = t => tx.kind = "buy"

\* C12 witness: the trade call of the buy failed, after the treasury
\* transfer of the same run went through
C12_Witness ==
  \E t \in Slots :
    /\ BuybackStageFailed(t)
    /\ tx.kind = "buy" /\ tx.slot = t /\ ~tx.landed
    /\ task[t].pc = "notify"

\* the raw amount that burnPurchasedTokens computes for the tokens the run
\* in slot t bought
RawFor(t) == BurnAmountMemo[task[t].tokens][mint.decimals].raw

\* C13: a burn whose raw amount is 0 is rejected: burnPurchasedTokens fails,
\* no transfer to the incinerator is submitted and no Burn row is inserted.
C13_ZeroBurnRejected ==
  [][\A t \in Slots :
       (task[t].pc = "burn_tx" /\ task[t].tokens # NoTokens
          /\ RawFor(t) = <<>>) =>
         /\ burns' = burns
         /\ tx'.kind # "burn"
         /\ task'[t].pc = "notify" /\ task'[t].error # ""]_vars

\* floor(display x 10^decimals) of the decimal literal, computed exactly
ExactRaw(tokenAmount, decimals) ==
  IF decimals >= tokenAmount.scale
  THEN NatMulPow10(NatOf(tokenAmount.digits), decimals - tokenAmount.scale)
  ELSE NatDivPow10(NatOf(tokenAmount.digits),
                   tokenAmount.scale - decimals).q

\* C14: the raw amount of every submitted burn transfer equals
\* floor(display x 10^decimals) of the display amount the run bought.
C14_RawIsFloor ==
  [][\A t \in Slots :
       (task[t].pc = "burn_tx" /\ tx'.kind = "burn" /\ tx'.slot = t) =>
         tx'.raw = ExactRaw(task[t].tokens, mint.decimals)]_vars

\* C15: a submitted burn transaction contains the create-account
\* instruction exactly when the incinerator's token account does not exist
\* at that time.
C15_CreateOnlyWhenAbsent ==
  [][\A t \in Slots :
       (task[t].pc = "burn_tx" /\ tx'.kind = "burn" /\ tx'.slot = t) =>
         (tx'.createAta <=> ~mint.incineratorAta)]_vars

\* the run in slot t left claimCreatorFees with a failure: no Claim row of
\* the run exists and no later stage began
ClaimStageFailed(t) ==
  /\ task[t].pc = "notify" /\ task[t].error # ""
  /\ task[t].begun = SubSeq(StageOrder, 1, 2)
  /\ task[t].done = 1
  /\ ~task[t].claim.success
  /\ \A i \in DOMAIN claims : claims[i].run # task[t].run

\* C16: when the balance after the claim transaction is not greater than the
\* balance before it, claimCreatorFees fails whatever the estimate was: no
\* Claim row is inserted and the run begins no treasury transfer, buy or
\* burn.
C16_NoFundsFails ==
  \A t \in Slots :
    (tx.kind = "claim" /\ tx.slot = t /\ tx.after <= tx.before) =>
      ClaimStageFailed(t)

\* C16 witness: the claim transaction went through with an estimate at the
\* threshold, the balance did not grow, and the run failed
C16_Witness ==
  \E t \in Slots :
    /\ tx.kind = "claim" /\ tx.slot = t /\ tx.landed
    /\ tx.after <= tx.before
    /\ ClaimStageFailed(t)
    /\ monitorChecks # <<>>
    /\ monitorChecks[Len(monitorChecks)].claimable_fees >= claimThresholdLamports

\* C17: when the post-claim balance is at or below the reserve, or a
\* configured share is 0 percent, claimCreatorFees fails: no Claim row, no
\* treasury transfer, no buy; and every ClaimResult that does succeed has
\* both shares above 0.
C17_EmptyShareFails ==
  \A t \in Slots :
    /\ (tx.kind = "claim" /\ tx.slot = t
          /\ (\/ tx.after <= MIN_WALLET_BALANCE_LAMPORTS
              \/ config.treasuryPercent = 0
              \/ config.buybackPercent = 0)) =>
         ClaimStageFailed(t)
    /\ task[t].pc \in {"claim_confirm", "treasury", "buyback_tx"} =>
         /\ NumLess(Zero, task[t].claim.treasuryAmount)
         /\ NumLess(Zero, task[t].claim.buybackAmount)

\* C17 witness: the claim transaction brought SOL, the post-claim balance is
\* still below the reserve, and the run failed
C17_Witness ==
  \E t \in Slots :
    /\ tx.kind = "claim" /\ tx.slot = t /\ tx.landed
    /\ tx.after > tx.before
    /\ tx.after <= MIN_WALLET_BALANCE_LAMPORTS
    /\ config.treasuryPercent > 0 /\ config.buybackPercent > 0
    /\ ClaimStageFailed(t)

\* C17 witness for the 0 percent share: a configuration accepted at startup
\* with treasuryPercent = 0 made a funded claim fail
C17_WitnessZeroPercent ==
  \E t \in Slots :
    /\ tx.kind = "claim" /\ tx.slot = t /\ tx.landed
    /\ tx.after - tx.before > MIN_WALLET_BALANCE_LAMPORTS
    /\ config.treasuryPercent = 0
    /\ ClaimStageFailed(t)

\* the Number nearest to lamports * percent / 100 SOL
DecimalShare(lamports, percent) ==
  NumDivPow10(NumMulInt(NumberOf(lamports), percent), 11)

\* C18: when the reserve check passes without adjustment, claimedAmount is
\* the balance delta in SOL, treasuryAmount = claimedAmount x
\* treasuryPercent / 100 and buybackAmount = claimedAmount x buybackPercent
\* / 100, as decimal values: before 1.000 and after 1.0185 with 50/50 give
\* 0.0185 and 0.00925 each.
C18_SharesOfDelta ==
  \A t \in Slots :
    (task[t].pc = "claim_confirm"
       /\ ~AmountsFor(task[t].claim, 0).adjusted) =>
      LET c == task[t].claim
          delta == c.balanceAfter - c.balanceBefore
      IN /\ c.claimedAmount = lamportsToSol(delta)
         /\ c.treasuryAmount = DecimalShare(delta, config.treasuryPercent)
         /\ c.buybackAmount = DecimalShare(delta, config.buybackPercent)

\* C19: with the force flag set, shouldClaimFees answers shouldClaim = true
\* on every call.
C19_ForceAlwaysClaims ==
  (decision.asked /\ decision.force) => decision.shouldClaim

\* C20: with force = false and the estimate read, shouldClaimFees answers
\* shouldClaim = true exactly when estimate >= threshold, and the
\* claimableFees it returns is that estimate.
C20_ThresholdDecides ==
  (decision.asked /\ ~decision.force /\ decision.readOk) =>
    /\ decision.shouldClaim <=> decision.estimate >= claimThresholdLamports
    /\ decision.claimableFees = decision.estimate

\* C21: on a scheduler tick where the estimate is below the threshold the
\* Orchestrator is never invoked, the claim lock is never acquired, and no
\* claim, transfer, buy or burn transaction is submitted: the tick ends.
C21_BelowThresholdSkips ==
  [][\A t \in Slots :
       (/\ task[t].pc = "t_decide"
        /\ decision'.asked /\ decision'.readOk
        /\ decision'.estimate < claimThresholdLamports)
       => (/\ task'[t].pc = "idle"
           /\ ~claimInProgress'
           /\ schedulerStatus'.claimsTriggered = schedulerStatus.claimsTriggered
           /\ tx' = NoTx
           /\ claims' = claims /\ buybacks' = buybacks /\ burns' = burns)]_vars

\* C21 witness: the only trigger was a tick, it read an estimate below the
\* threshold, logged it, and has ended without a run.
C21_Witness ==
  /\ started = 1 /\ AllIdle
  /\ decision.asked /\ decision.readOk /\ ~decision.force
  /\ decision.estimate < claimThresholdLamports
  /\ Len(monitorChecks) = 1
  /\ schedulerStatus.claimsTriggered = 0
  /\ claims = <<>>

\* C22: a run whose threshold validation finds the estimate below the
\* threshold (force = false) is a no-op decision, not an error: no failure
\* notification is sent for it, and its message enters neither the
\* scheduler's error list nor last_error (which is written by the update
\* that increments error_count).
C22_BelowThresholdNotAnError ==
  /\ (result.returned /\ result.error = "InsufficientFees")
       => result.event # "claim_failed"
  /\ \A i \in DOMAIN schedulerStatus.errors :
       schedulerStatus.errors[i].message # "InsufficientFees"
  /\ systemStatus.last_error # "InsufficientFees"

\* C23: while the system is administratively paused a scheduler tick skips:
\* its pause check ends it without evaluating the Fee Monitor, appending a
\* MonitorCheck, acquiring the lock or invoking the Orchestrator.
C23_PausedTickSkips ==
  [][\A t \in Slots :
       (/\ task[t].kind = "tick" /\ task[t].pc = "t_status"
        /\ systemStatus.is_paused
        /\ task'[t] # task[t])
       => (/\ task'[t].pc \in {"idle", "t_catch"}
           /\ monitorChecks' = monitorChecks
           /\ decision' = NoDecision
           /\ (claimInProgress' => claimInProgress)
           /\ schedulerStatus'.claimsTriggered = schedulerStatus.claimsTriggered
           /\ systemStatus'.total_checks = systemStatus.total_checks)]_vars

\* C23 witness: the system is paused, an earlier trigger has been skipped
\* without a MonitorCheck or an error, and a tick is at its pause check.
C23_Witness ==
  /\ systemStatus.is_paused
  /\ started = 2 /\ schedulerStatus.checksPerformed = 2
  /\ monitorChecks = <<>> /\ schedulerStatus.errors = <<>>
  /\ systemStatus.total_checks = 0
  /\ \E t \in Slots :
       /\ task[t].kind = "tick" /\ task[t].pc = "t_status"
       /\ \A u \in Slots \ {t} : ~Active(u)

\* C24: forceCheck ignores the pause state but respects the claim lock:
\* called while the system is paused and the lock is free it goes on to
\* evaluate the Fee Monitor (unless the store fails); called while the lock
\* is held it is rejected and starts nothing.
C24_ForceIgnoresPause ==
  /\ [][\A t \in Slots :
          (/\ task[t].kind = "force" /\ task[t].pc = "t_status"
           /\ systemStatus.is_paused /\ ~claimInProgress
           /\ task'[t] # task[t])
          => task'[t].pc \in {"t_update", "t_catch"}]_vars
  /\ [][(reply'.route = "force-check" /\ claimInProgress)
          => (reply'.lockRefused /\ task' = task
              /\ monitorChecks' = monitorChecks)]_vars

\* the answer d of shouldClaimFees shows that the estimate was read and
\* that insertMonitorCheck threw: the catch block answered 0 instead of it
InsertFailed(d) == d.readOk /\ d.claimableFees # d.estimate

\* C25: every Fee Monitor evaluation appends exactly one MonitorCheck
\* record, whatever its outcome (claim, no claim, forced) as long as the
\* store accepts the insert, and no step modifies or removes an existing
\* MonitorCheck record.
C25_EveryEvaluationLogged ==
  [][/\ (decision'.asked /\ ~InsertFailed(decision'))
          => Len(monitorChecks') = Len(monitorChecks) + 1
     /\ ~decision'.asked => monitorChecks' = monitorChecks
     /\ \A i \in DOMAIN monitorChecks :
          i \in DOMAIN monitorChecks' /\ monitorChecks'[i] = monitorChecks[i]
    ]_vars

\* C26: the OrchestrationResult returned by a run reports the signature and
\* amounts of every stage that completed in it, also when a later stage
\* failed: the claim signature and non-zero amounts once Claim completed,
\* the treasury signature once Treasury completed, the buyback and burn
\* signatures once those completed.
C26_ResultReportsCompleted ==
  result.returned =>
    /\ result.stages >= 2 =>
         /\ result.claimSignature
         /\ NumLess(Zero, result.claimedAmount)
         /\ NumLess(Zero, result.treasuryAmount)
         /\ NumLess(Zero, result.buybackAmount)
    /\ result.stages >= 3 => result.treasurySignature
    /\ result.stages >= 4 => result.buybackSignature
    /\ result.stages >= 5 => result.burnSignature

\* C27: a pipeline run that a scheduler tick started and that failed at some
\* stage changes error_count only by adding one, together with setting
\* last_error to that run's error message, and its tick ends in the catch
\* block; a run that fully succeeded changes neither error_count nor
\* last_error.
C27_FailedRunsCounted ==
  [][\A t \in Slots :
       (task[t].locked /\ task[t].kind = "tick") =>
         IF task[t].done = 5
         THEN /\ systemStatus'.error_count = systemStatus.error_count
              /\ systemStatus'.last_error = systemStatus.last_error
         ELSE /\ systemStatus'.error_count # systemStatus.error_count
                   => /\ task[t].pc = "t_catch_update"
                      /\ systemStatus'.error_count
                           = systemStatus.error_count + 1
                      /\ systemStatus'.last_error = task[t].error
              /\ task'[t].pc = "idle"
                   => task[t].pc \in {"t_catch", "t_catch_update"}
    ]_vars

\* C28: no stage is retried and no run is resumed: a trigger enters
\* executeClaimFlow at most once, always at ValidateThreshold and with no
\* stage on record; a run begins each stage at most once; and a claim
\* transaction is submitted only by a run that has evaluated the threshold
\* itself and has begun nothing else - also in the run after a failed run.
C28_NoRetryNoResume ==
  /\ [][\A t \in Slots :
          (InFlow(t)' /\ ~InFlow(t)) =>
            /\ task[t].pc \in {"idle", "t_decide"}
            /\ task[t].begun = <<>> /\ task[t].done = 0
            /\ task'[t].pc = "validate"
            /\ task'[t].begun = <<>> /\ task'[t].done = 0]_vars
  /\ [](\A t \in Slots :
          /\ \A i, j \in DOMAIN task[t].begun :
               task[t].begun[i] = task[t].begun[j] => i = j
          /\ task[t].pc = "claim_tx" =>
               /\ task[t].begun = <<"ValidateThreshold">>
               /\ task[t].done = 1)
  /\ [](schedulerStatus.claimsTriggered <= started)

\* C28 witness: the first run failed after its claim was confirmed, and a
\* second trigger's run has evaluated the threshold again and is about to
\* submit its claim transaction.
C28_Witness ==
  \E t \in Slots :
    /\ task[t].run = 2 /\ task[t].pc = "claim_tx"
    /\ task[t].begun = <<"ValidateThreshold">>
    /\ Len(claims) = 1 /\ claims[1].status = "confirmed"
    /\ buybacks = <<>>
    /\ Len(monitorChecks) >= 2
    /\ \A u \in Slots \ {t} : ~Active(u)

SendDone == rpc.send.pc \in {"returned", "thrown"}

\* C29: sendTransaction makes at most maxRetries submission attempts; it
\* returns the signature of the first attempt that succeeds and makes no
\* further attempt; between attempts i and i+1 it waits
\* min(1000 x 2^(i-1), 10000) ms, and it does not wait after the last one;
\* it throws once all maxRetries attempts failed; and every call ends, for
\* every maxRetries including 0.
C29_BoundedRetries ==
  /\ [](LET s == rpc.send IN
        /\ s.attempts <= s.retries
        /\ \A i \in DOMAIN s.waits :
             s.waits[i] = <<1000, 2000, 4000, 8000, 10000, 10000>>[i]
        /\ s.pc = "attempt" =>
             /\ s.attempt = s.attempts + 1
             /\ Len(s.waits) = s.attempts
        /\ s.pc = "returned" =>
             /\ s.signature = s.attempts
             /\ Len(s.waits) = s.attempts - 1
        /\ s.pc = "thrown" =>
             /\ s.signature = 0
             /\ s.attempts = s.retries
             /\ Len(s.waits) = IF s.retries = 0 THEN 0 ELSE s.retries - 1)
  /\ [][SendDone => rpc'.send = rpc.send]_vars
  /\ (rpc.send.pc # "idle") ~> SendDone

\* C29 witness: with maxRetries = 6 all six attempts failed, the waits in
\* between reached the 10 s cap, and the call has thrown.
C29_Witness ==
  /\ rpc.send.pc = "thrown"
  /\ rpc.send.retries = 6 /\ rpc.send.attempts = 6
  /\ rpc.send.waits = <<1000, 2000, 4000, 8000, 10000>>

\* C29 witness for maxRetries = 0: the call has thrown without an attempt
C29_WitnessZero ==
  /\ rpc.send.pc = "thrown"
  /\ rpc.send.retries = 0 /\ rpc.send.attempts = 0

ConfirmDone == rpc.confirm.pc \in {"true", "false", "timeout"}

\* C30: confirmTransaction always terminates: it returns true as soon as
\* the status is confirmed and false as soon as it is failed, it raises the
\* timeout error only once timeoutMs has elapsed with the status pending
\* (or the status query failing), it polls only while the time is not up,
\* at most once per 2 s, and every call ends.
C30_ConfirmTerminates ==
  /\ [](LET c == rpc.confirm IN
        /\ c.status = "confirmed" <=> c.pc = "true"
        /\ c.status = "failed" <=> c.pc = "false"
        /\ c.pc = "timeout" =>
             /\ c.elapsed >= c.timeoutMs
             /\ c.status \in {"none", "pending"}
        /\ c.pc = "poll" => c.elapsed < c.timeoutMs
        /\ c.polls >= 1 => 2000 * (c.polls - 1) < c.timeoutMs)
  /\ [][ConfirmDone => rpc'.confirm = rpc.confirm]_vars
  /\ (rpc.confirm.pc # "idle") ~> ConfirmDone

\* C30 witness: with timeoutMs = 6000 the status was pending in three polls
\* and the call has raised the timeout error.
C30_Witness ==
  /\ rpc.confirm.pc = "timeout"
  /\ rpc.confirm.timeoutMs = 6000
  /\ rpc.confirm.polls = 3 /\ rpc.confirm.status = "pending"

\* C31: every persisted Buyback row has sol_spent equal to the measured
\* wallet balance delta balanceBefore - balanceAfter in lamports, and the
\* solSpent that buybackTokens returns is that same measured delta (in SOL),
\* never the requested budget.
C31_SolSpentIsMeasured ==
  /\ \A i \in DOMAIN buybacks :
       buybacks[i].sol_spent
         = buybacks[i].balances.before - buybacks[i].balances.after
  /\ (stage.name = "buyback" /\ stage.measured)
       => stage.solSpent = lamportsToSol(stage.delta)

\* the tokenAmount string is unparsable (parseFloat finds no number), zero
\* or negative
NotPositive(tokenAmount) ==
  \/ tokenAmount.form \in {"text", "minus"}
  \/ tokenAmount.digits = 0

C33_AlwaysReturnsResult ==
  [][/\ \A t \in Slots :
          /\ (task[t].error = "" /\ task'[t].error # "" /\ InFlow(t))
               => task'[t].pc = "notify"
          /\ (task[t].pc = "notify" /\ task'[t] # task[t])
               => /\ result'.returned
                  /\ result'.success <=> task[t].done = 5
                  /\ result'.success <=> result'.error = ""
     /\ result'.returned => (result'.success <=> result'.stages = 5)]_vars

\* C33 witness: a run whose Burn stage failed returned success = false while
\* the post of claim_failed was rejected
C33_Witness ==
  /\ result.returned /\ ~result.success /\ result.stages = 4
  /\ result.posts = 1 /\ ~result.delivered

\* C33 witness: a run returned success = true
C33_WitnessSuccess ==
  result.returned /\ result.success /\ result.stages = 5

\* C34: a stage that returns success = false did not settle its transaction:
\* when claimCreatorFees, buybackTokens or burnPurchasedTokens fails, no
\* claim, buy or burn transaction of that call was confirmed on the ledger,
\* also when the insert or the status update after the transaction failed
\* (a row left pending belongs to a confirmed transaction).
C34_FailureMeansNotSettled ==
  [][\A t \in Slots :
       /\ (/\ tx'.slot = t /\ tx'.landed
           /\ tx'.kind \in {"claim", "buy", "burn"})
            => task'[t].error = ""
       /\ (/\ task[t].pc \in {"claim_fail", "buyback_fail", "burn_fail"}
           /\ task'[t].pc = "notify")
            => task'[t].error = ""]_vars

\* C35: a scheduler tick that starts a run reads the fee estimate once and
\* appends exactly one MonitorCheck: Step 1 of that run reads no estimate and
\* appends no further check, and it cannot fail threshold validation, because
\* it works on the estimate the tick decided on.
C35_TickReadsEstimateOnce ==
  [][\A t \in Slots :
       (/\ task[t].kind = "tick" /\ task[t].pc = "validate"
        /\ task'[t] # task[t])
       => /\ monitorChecks' = monitorChecks
          /\ ~decision'.asked
          /\ task'[t].error = ""]_vars

\* C36: while the system is paused no pipeline run starts from any trigger:
\* between a pause and the next resume neither a scheduler tick nor a manual
\* POST /api/claim enters executeClaimFlow.
C36_NoRunWhilePaused ==
  [][\A t \in Slots :
       (task[t].pc # "validate" /\ task'[t].pc = "validate")
       => ~systemStatus.is_paused]_vars

\* C37: the persisted total_claims counts the tick-started runs that fully
\* succeeded: it changes only when such a run has returned success, and then
\* by exactly one; a failed run adds nothing to it, neither when it fails nor
\* when a later run succeeds.
C37_TotalClaimsCountsSuccesses ==
  [][/\ systemStatus'.total_claims # systemStatus.total_claims
          => /\ systemStatus'.total_claims = systemStatus.total_claims + 1
             /\ \E t \in Slots : task[t].pc = "t_success"
     /\ \A t \in Slots :
          (task[t].pc = "t_success" /\ task'[t].pc = "idle"
             /\ schedulerStatus'.errors = schedulerStatus.errors)
          => systemStatus'.total_claims = systemStatus.total_claims + 1]_vars

\* C38: with a webhook configured every pipeline run posts exactly one
\* notification when it ends, claim_complete on full success and claim_failed
\* otherwise; without a webhook it posts none; no other step posts; and
\* whether the post resolved or was rejected, the returned
\* OrchestrationResult is the one the run produced and no persisted row
\* changes.
C38_OneNotificationPerRun ==
  [][/\ \A t \in Slots :
          (task[t].pc = "notify" /\ task'[t] # task[t])
          => /\ result'.returned
             /\ result'.posts = IF config.webhookUrl THEN 1 ELSE 0
             /\ result'.event = IF ~config.webhookUrl THEN "none"
                                ELSE IF task[t].done = 5 THEN "claim_complete"
                                ELSE "claim_failed"
             /\ [result' EXCEPT !.posts = 0, !.delivered = FALSE,
                                !.event = "none"]
                  = [OrchestrationResult(task[t]) EXCEPT !.event = "none"]
             /\ <<claims, buybacks, burns, monitorChecks, systemStatus>>'
                  = <<claims, buybacks, burns, monitorChecks, systemStatus>>
     /\ (\A t \in Slots : task[t].pc # "notify")
          => result'.posts = 0 /\ result'.event = "none"]_vars

\* C38 witness: a fully successful run whose claim_complete post was rejected
C38_Witness ==
  /\ config.webhookUrl
  /\ result.returned /\ result.success /\ result.event = "claim_complete"
  /\ result.posts = 1 /\ ~result.delivered
  /\ Len(burns) = 1 /\ burns[1].status = "confirmed"

\* C38 witness: a run without a webhook returned and posted nothing
C38_WitnessNoSink ==
  /\ ~config.webhookUrl
  /\ result.returned /\ result.posts = 0 /\ result.event = "none"

\* the last n entries of a list
LastEntries(list, n) ==
  IF Len(list) <= n THEN list ELSE SubSeq(list, Len(list) - n + 1, Len(list))

\* C39: the scheduler's in-memory error list never holds more than 10
\* entries: every failing tick appends its error at the end and, when that
\* makes 11, drops the oldest, so after n failing ticks the list holds the
\* most recent min(n, 10) errors in order of occurrence; nothing else changes
\* the list.
C39_ErrorsKeepLastTen ==
  [][/\ Len(schedulerStatus'.errors) <= MaxErrors
     /\ \A i, j \in DOMAIN schedulerStatus'.errors :
          i < j => schedulerStatus'.errors[i].timestamp
                     < schedulerStatus'.errors[j].timestamp
     /\ \A t \in Slots :
          (task[t].pc = "t_catch" /\ task'[t] # task[t])
          => schedulerStatus'.errors
               = LastEntries(Append(schedulerStatus.errors,
                                    ErrorInfo(schedulerStatus.checksPerformed,
                                              task[t].error)), MaxErrors)
     /\ (\A t \in Slots : task[t].pc # "t_catch")
          => schedulerStatus'.errors = schedulerStatus.errors]_vars

\* C39 witness: twelve ticks failed; the list holds the errors of the third
\* to the twelfth
C39_Witness ==
  /\ Len(schedulerStatus.errors) = MaxErrors
  /\ schedulerStatus.errors[1].timestamp = 3
  /\ schedulerStatus.errors[MaxErrors].timestamp = 12

====
